---- MODULE Spec2Model ----
(***************************************************************************)
(* Walkshed generation, batch orchestration.                               *)
(*                                                                         *)
(* The module models process_routes of QGIS_walkshed_automation.py (the    *)
(* batched orchestrator) together with the script body that calls it, and  *)
(* process_routes of standalone_walkshed_generator.py (the variant without *)
(* batches).  Every call of processing.run, and os.remove, is a call into  *)
(* the host GIS or the file system that may raise; the model draws that    *)
(* outcome nondeterministically wherever the code has a handler for it.    *)
(*                                                                         *)
(* A layer is identified by the route it was computed for and the result   *)
(* key it is stored under; a stored artifact holds a bag of such features. *)
(*                                                                         *)
(* Spec follows the two orchestrators.  SpecService and SpecHull follow    *)
(* one call of create_walksheds on its own: steps 1-4 on a network along   *)
(* one axis, and steps 5-7 on a lattice.                                   *)
(***************************************************************************)
EXTENDS Integers, Sequences, FiniteSets, Bags, TLC

VARIABLES
    variant,            \* which script runs: "batch" or "standalone"
    pc,                 \* position of the script / process_routes
    stops_found,        \* mapLayersByName(STOPS_LAYER_NAME) is non-empty
    network_found,      \* mapLayersByName(NETWORK_LAYER_NAME) is non-empty
    stops,              \* the 'rte' values of the stops layer's features
    routes,             \* sorted(set(...)): the sorted distinct route keys
    batch_size,         \* batch_size = ROUTES_PER_BATCH
    i,                  \* the outer loop's index, range(0, total, batch_size)
    batch_routes,       \* routes[i:min(i + batch_size, total_routes)]
    pos,                \* routes of batch_routes the inner loop has taken
    batch_results,      \* the three in-memory result lists
    all_results,        \* standalone: the list of per-route result dicts
    prefix_bound,       \* the local name `prefix` has been assigned
    intermediate,       \* intermediate artifacts in OUTPUT_FOLDER
    final,              \* final artifacts in OUTPUT_FOLDER
    printed,            \* the lines printed so far (as a set)
    faults,             \* storage faults drawn so far
    \* history, read by the properties only
    attempted,          \* routes handed to create_walksheds, in order
    skipped,            \* routes whose create_walksheds gave None or raised
    batches,            \* every batch_routes the outer loop has formed
    saved_batches,      \* batch numbers whose save loop has run
    saved,              \* features written to an intermediate artifact
    net_preps,          \* times steps 1-3 (buffer, clip, split) completed
    partial,            \* the last call of create_walksheds in the batch
                        \* raised after `results` had been given an output
    \* one call of create_walksheds, steps 1-4 (specification SpecService);
    \* the network lies along one axis, a line is an interval [lo, hi] of it
    sv_pc,              \* position in create_walksheds
    sv_network,         \* network_layer
    sv_stops,           \* stops_layer: the coordinates of the route's stops
    sv_distance,        \* distance_meters
    sv_buffer,          \* buffer_result['OUTPUT']
    sv_clip,            \* clip_result['OUTPUT']
    sv_split,           \* split_result['OUTPUT']
    sv_graph,           \* the graph the service-area step builds
    sv_seeds,           \* the graph nodes the stops are tied to
    sv_area,            \* service_result
    \* one call of create_walksheds, steps 5-7 (specification SpecHull);
    \* a polygon is the set of lattice points it covers
    h_pc,               \* position in create_walksheds
    h_lines,            \* service_result['OUTPUT_LINES']
    h_points,           \* service_result['OUTPUT']
    h_convex,           \* convex_result['OUTPUT']
    h_concave,          \* concave_result['OUTPUT']
    h_walksheds,        \* walksheds_result['OUTPUT']
    \* one use of native:mergevectorlayers (specification SpecMerge)
    m_pc,               \* position: the merge, then a merge of its result
    m_layers,           \* 'LAYERS': the list of layers handed to the merge
    m_merged,           \* 'OUTPUT' of the merge
    m_again             \* 'OUTPUT' of merging [m_merged, m_merged]

vars == <<variant, pc, stops_found, network_found, stops, routes, batch_size, i,
          batch_routes, pos, batch_results, all_results, prefix_bound, intermediate, final,
          printed, faults, attempted, skipped, batches, saved_batches, saved,
          net_preps, partial>>

serviceVars == <<sv_pc, sv_network, sv_stops, sv_distance, sv_buffer, sv_clip,
                 sv_split, sv_graph, sv_seeds, sv_area>>

hullVars == <<h_pc, h_lines, h_points, h_convex, h_concave, h_walksheds>>

mergeVars == <<m_pc, m_layers, m_merged, m_again>>

geoVars == <<serviceVars, hullVars, mergeVars>>

allVars == <<vars, geoVars>>

----------------------------------------------------------------------------
(* Bounds and program constants *)

ROUTES_PER_BATCH == 5

SmallBatch == 2

MaxKey == 5

MaxFaults == 1

NumSteps == 8

NetworkPrepSteps == 3

ServiceAreaStep == 4

WalkshedClipStep == 7

\* ROUTES_PER_BATCH is a setting of the CONFIGURATION block: the model runs
\* the shipped value and a smaller one, so that runs of three batches fit.
BatchSizes == {SmallBatch, ROUTES_PER_BATCH}

RouteKeys == 1..MaxKey

Types == {"walksheds", "dissolved", "service_lines"}

----------------------------------------------------------------------------
(* Pure helpers *)

Min(a, b) == IF a < b THEN a ELSE b

SetMin(S) == CHOOSE x \in S : \A y \in S : x <= y

RECURSIVE Sorted(_)
\* sorted(set(...)): the elements of S in increasing order
Sorted(S) == IF S = {} THEN <<>> ELSE <<SetMin(S)>> \o Sorted(S \ {SetMin(S)})

\* Python's routes[lo:hi] on a 0-based list
Slice(s, lo, hi) == SubSeq(s, lo + 1, Min(hi, Len(s)))

\* mutant of BatchSlice: the slice stops one short of its end
BatchSliceOneShort(rs, idx, bsize) == Slice(rs, idx, Min(idx + bsize, Len(rs)) - 1)

\* routes[i:min(i + batch_size, total_routes)]
BatchSlice(rs, idx, bsize) == Slice(rs, idx, Min(idx + bsize, Len(rs)))

\* i//batch_size + 1
BatchNo(idx, bsize) == (idx \div bsize) + 1

RECURSIVE SeqToBag(_)
SeqToBag(s) == IF s = <<>> THEN EmptyBag
               ELSE SetToBag({Head(s)}) (+) SeqToBag(Tail(s))

RECURSIVE BagSum(_)
\* the features of all the artifacts of a set, added up
BagSum(S) == IF S = {} THEN EmptyBag
             ELSE LET f == CHOOSE x \in S : TRUE
                  IN  f.features (+) BagSum(S \ {f})

Line(msg, rs) == [msg |-> msg, routes |-> rs]

EmptyResults == [t \in Types |-> <<>>]

----------------------------------------------------------------------------
(* create_walksheds: eight processing steps inside try / except / finally *)

Layer(route, key) == [rte |-> route, key |-> key]

\* the keys of `results` that are set once `done` steps have completed
KeysAfter(done) ==
    (IF done >= ServiceAreaStep THEN {"service_area_lines"} ELSE {}) \cup
    (IF done >= WalkshedClipStep THEN {"walksheds_poly"} ELSE {}) \cup
    (IF done >= NumSteps THEN {"walksheds_dissolved"} ELSE {})

\* the dict `results` once `done` steps have completed
ResultsAfter(route, done) == [key \in KeysAfter(done) |-> Layer(route, key)]

NoneValue == [is_none |-> TRUE, dict |-> ResultsAfter(0, 0)]

\* mutant of ResultsAtReturn: the handler does not set results to None, so
\* the keys set before the failing step are returned
ResultsKeptOnFailure(route, failAt) ==
    [is_none |-> FALSE,
     dict |-> ResultsAfter(route, IF failAt = 0 THEN NumSteps ELSE failAt - 1)]

\* what `results` is bound to when the try statement is left: the full dict,
\* or None when step failAt raised (failAt = 0: no step raised)
ResultsAtReturn(route, failAt) ==
    IF failAt = 0 THEN [is_none |-> FALSE, dict |-> ResultsAfter(route, NumSteps)]
    ELSE NoneValue

\* create_walksheds(filtered_stops, ...): step failAt raises (0: none does) and
\* is caught; cleanRaises: clean_temporary_layers raises in the finally
\* block, so the exception leaves the function and nothing is returned
CreateWalksheds(route, failAt, cleanRaises) ==
    [raised |-> cleanRaises,
     value  |-> ResultsAtReturn(route, failAt),
     prepared |-> failAt = 0 \/ failAt > NetworkPrepSteps,
     partial |-> failAt > ServiceAreaStep,
     lines  |-> IF failAt = 0 THEN {} ELSE {Line("Error in create_walksheds", {})}]

\* Python's truth value of `results`: None and the empty dict are false
Truthy(v) == ~v.is_none /\ DOMAIN v.dict # {}

\* lines 192-194: the list each append goes to and the key it reads
AppendOrder ==
    <<[type |-> "walksheds", key |-> "walksheds_poly"],
      [type |-> "dissolved", key |-> "walksheds_dissolved"],
      [type |-> "service_lines", key |-> "service_area_lines"]>>

RECURSIVE AppendFrom(_, _, _)
\* the appends from the n-th on, one after the other; a key that `results`
\* does not hold raises KeyError, which ends them (line 198)
AppendFrom(br, v, n) ==
    IF n > Len(AppendOrder) \/ AppendOrder[n].key \notin DOMAIN v.dict
    THEN br
    ELSE AppendFrom([br EXCEPT ![AppendOrder[n].type] =
                                  Append(@, v.dict[AppendOrder[n].key])],
                    v, n + 1)

\* lines 191-194: the three appends
AppendResults(br, v) == IF Truthy(v) THEN AppendFrom(br, v, 1) ELSE br

\* lines 189-200: what one call leaves in batch_results
ResultsAfterRoute(br, cw) == IF cw.raised THEN br ELSE AppendResults(br, cw.value)

\* lines 195-197: what the try statement prints for the route
RouteLines(route, cw) ==
    IF cw.raised THEN {Line("Error processing route", {route})}
    ELSE IF Truthy(cw.value) THEN {Line("Successfully processed route", {route})}
    ELSE {}

\* mutant of AfterRoute: a route that fails ends the batch
AfterRouteAbortsOnFailure(cw, taken, batchLen) ==
    [pos |-> taken + 1,
     pc  |-> IF taken + 1 < batchLen /\ ~cw.raised /\ Truthy(cw.value)
             THEN "ProcessingBatch" ELSE "SavingBatch"]

\* the inner loop after a route: the next route of the batch, whatever the
\* route's outcome was, and the save once the batch is exhausted
AfterRoute(cw, taken, batchLen) ==
    [pos |-> taken + 1,
     pc  |-> IF taken + 1 < batchLen THEN "ProcessingBatch" ELSE "SavingBatch"]

----------------------------------------------------------------------------
(* save_batch_results *)

\* native:mergevectorlayers: the features of all input layers
MergeVectorLayers(layers) == SeqToBag(layers)

\* save_batch_results(output_list, output_path): the artifact written, if any
SaveBatchResults(output_list, raises) ==
    IF output_list = <<>> THEN [written |-> FALSE, features |-> EmptyBag, lines |-> {}]
    ELSE IF raises
         THEN [written |-> FALSE, features |-> EmptyBag,
               lines |-> {Line("Error saving batch", {})}]
         ELSE [written |-> TRUE, features |-> MergeVectorLayers(output_list),
               lines |-> {}]

\* mutant of ClearedResults: the lists are not cleared after the save
ClearedResultsKept(br) == br

\* line 213: the lists the next batch starts with
ClearedResults(br) == EmptyResults

\* mutant of AfterSave: the loop is left after the first save
AfterSaveLeavesLoop(idx, bsize, total) ==
    [i  |-> idx + bsize, pc |-> "MergingFinal"]

\* the outer loop after the save of the batch at index idx
AfterSave(idx, bsize, total) ==
    [i  |-> idx + bsize,
     pc |-> IF idx + bsize < total THEN "ProcessingBatch" ELSE "MergingFinal"]

----------------------------------------------------------------------------
(* The script and process_routes of QGIS_walkshed_automation.py *)

\* no service area
NoArea == [nodes |-> {}, lines |-> {}]

\* the variables of steps 1-4 of create_walksheds while they are not modelled
ServiceIdle ==
    /\ sv_pc = "off"
    /\ sv_network = {}
    /\ sv_stops = {}
    /\ sv_distance = 0
    /\ sv_buffer = {}
    /\ sv_clip = {}
    /\ sv_split = {}
    /\ sv_graph = {}
    /\ sv_seeds = {}
    /\ sv_area = NoArea

\* the variables of steps 5-7 of create_walksheds while they are not modelled
HullIdle ==
    /\ h_pc = "off"
    /\ h_lines = {}
    /\ h_points = {}
    /\ h_convex = {}
    /\ h_concave = {}
    /\ h_walksheds = {}

\* the variables of a merge on its own while it is not modelled
MergeIdle ==
    /\ m_pc = "off"
    /\ m_layers = <<>>
    /\ m_merged = EmptyBag
    /\ m_again = EmptyBag

GeoIdle == ServiceIdle /\ HullIdle /\ MergeIdle

Init ==
    /\ GeoIdle
    /\ variant \in {"batch", "standalone"}
    /\ pc = "Idle"
    /\ stops_found \in BOOLEAN
    /\ network_found \in BOOLEAN
    /\ stops \in SUBSET RouteKeys
    /\ batch_size \in IF variant = "batch" THEN BatchSizes ELSE {ROUTES_PER_BATCH}
    /\ routes = <<>>
    /\ i = 0
    /\ batch_routes = <<>>
    /\ pos = 0
    /\ batch_results = EmptyResults
    /\ all_results = <<>>
    /\ prefix_bound = FALSE
    /\ intermediate = {}
    /\ final = {}
    /\ printed = {}
    /\ faults = 0
    /\ attempted = <<>>
    /\ skipped = {}
    /\ batches = <<>>
    /\ saved_batches = {}
    /\ saved = {}
    /\ net_preps = 0
    /\ partial = FALSE

\* lines 243-249: a layer name that matches nothing ends the script
RejectInputs ==
    /\ variant = "batch"
    /\ pc = "Idle"
    /\ ~(stops_found /\ network_found)
    /\ pc' = "InputError"
    /\ printed' = printed \cup
         {Line(IF ~stops_found THEN "Error: Could not find stops layer"
               ELSE "Error: Could not find network layer", {})}
    /\ UNCHANGED <<geoVars, partial, variant, all_results, stops_found, network_found, stops, routes, batch_size, i,
                   batch_routes, pos, batch_results, prefix_bound, intermediate,
                   final, faults, attempted, skipped, batches, saved_batches,
                   saved, net_preps>>

\* lines 250-259 and 149-175: the call of process_routes up to the first batch
StartRun ==
    /\ variant = "batch"
    /\ pc = "Idle"
    /\ stops_found /\ network_found
    /\ LET rs == Sorted(stops)
           total == Len(rs)
       IN  /\ routes' = rs
           /\ i' = 0
           /\ batch_results' = EmptyResults
           /\ IF 0 < total
              THEN /\ batch_routes' = BatchSlice(rs, 0, batch_size)
                   /\ batches' = Append(batches, BatchSlice(rs, 0, batch_size))
                   /\ pc' = "ProcessingBatch"
              ELSE /\ UNCHANGED <<batch_routes, batches>>
                   /\ pc' = "MergingFinal"
    /\ pos' = 0
    /\ printed' = printed \cup {Line("Processing...", {})}
    /\ UNCHANGED <<geoVars, partial, variant, all_results, stops_found, network_found, stops, batch_size, prefix_bound,
                   intermediate, final, faults, attempted, skipped,
                   saved_batches, saved, net_preps>>

\* lines 178-200: one route of the batch
ProcessRoute ==
    /\ variant = "batch"
    /\ pc = "ProcessingBatch"
    /\ pos < Len(batch_routes)
    /\ \E failAt \in 0..NumSteps, cleanRaises \in BOOLEAN :
         LET route == batch_routes[pos + 1]
             cw == CreateWalksheds(route, failAt, cleanRaises)
             nxt == AfterRoute(cw, pos, Len(batch_routes))
         IN  /\ batch_results' = ResultsAfterRoute(batch_results, cw)
             /\ printed' = printed \cup {Line("Processing route", {route})}
                                   \cup cw.lines \cup RouteLines(route, cw)
             /\ attempted' = Append(attempted, route)
             /\ skipped' = IF failAt # 0 \/ cleanRaises
                           THEN skipped \cup {route} ELSE skipped
             /\ net_preps' = IF cw.prepared THEN net_preps + 1 ELSE net_preps
             /\ partial' = cw.partial
             /\ pos' = nxt.pos
             /\ pc' = nxt.pc
    /\ UNCHANGED <<geoVars, variant, all_results, stops_found, network_found, stops, routes, batch_size, i,
                   batch_routes, prefix_bound, intermediate, final, faults,
                   batches, saved_batches, saved>>

\* lines 202-214 and the loop header: the save of the batch, the lists
\* cleared, and the next batch (or the end of the loop)
SaveBatch ==
    /\ variant = "batch"
    /\ pc = "SavingBatch"
    /\ \E failing \in SUBSET {t \in Types : batch_results[t] # <<>>} :
         LET b == BatchNo(i, batch_size)
             out == [t \in Types |-> SaveBatchResults(batch_results[t], t \in failing)]
             written == {t \in Types : out[t].written}
             nxt == AfterSave(i, batch_size, Len(routes))
         IN  /\ faults + Cardinality(failing) <= MaxFaults
             /\ faults' = faults + Cardinality(failing)
             /\ prefix_bound' = TRUE
             /\ intermediate' = intermediate \cup
                  {[batch |-> b, type |-> t, features |-> out[t].features] : t \in written}
             /\ saved' = saved \cup
                  UNION {{[type |-> t, feature |-> batch_results[t][n]] :
                             n \in 1..Len(batch_results[t])} : t \in written}
             /\ printed' = printed \cup {Line("Saving batch results...", {})}
                                   \cup UNION {out[t].lines : t \in Types}
             /\ saved_batches' = saved_batches \cup {b}
             /\ batch_results' = ClearedResults(batch_results)
             /\ i' = nxt.i
             /\ pc' = nxt.pc
             /\ pos' = 0
             /\ IF nxt.pc = "ProcessingBatch"
                THEN /\ batch_routes' = BatchSlice(routes, nxt.i, batch_size)
                     /\ batches' = Append(batches, BatchSlice(routes, nxt.i, batch_size))
                ELSE UNCHANGED <<batch_routes, batches>>
    /\ partial' = FALSE
    /\ UNCHANGED <<geoVars, variant, all_results, stops_found, network_found, stops, routes, batch_size, final,
                   attempted, skipped, net_preps>>

FilesOf(t) == {f \in intermediate : f.type = t}

\* lines 216-240 and 260: the final merge per type, the removal of the
\* intermediates, and the return to the script
MergeFinal ==
    /\ variant = "batch"
    /\ pc = "MergingFinal"
    /\ prefix_bound
    /\ \E mergeFailing \in SUBSET {t \in Types : FilesOf(t) # {}},
          removeFailing \in SUBSET intermediate :
         LET merged == {t \in Types : FilesOf(t) # {} /\ t \notin mergeFailing}
             n == Cardinality(mergeFailing) + Cardinality(removeFailing)
         IN  /\ faults + n <= MaxFaults
             /\ faults' = faults + n
             /\ final' = final \cup
                  {[type |-> t, features |-> BagSum(FilesOf(t))] : t \in merged}
             /\ intermediate' = removeFailing
             /\ printed' = printed \cup {Line("Merging all results...", {})}
                  \cup (IF mergeFailing # {} THEN {Line("Error saving batch", {})} ELSE {})
                  \cup (IF FilesOf("walksheds") \cup FilesOf("dissolved")
                             \cup FilesOf("service_lines") # {}
                        THEN {Line("Created final output", {})} ELSE {})
                  \cup (IF removeFailing # {}
                        THEN {Line("Could not remove intermediate file", {})} ELSE {})
                  \cup {Line("Processing complete!", {})}
    /\ pc' = "Done"
    /\ UNCHANGED <<geoVars, partial, variant, all_results, stops_found, network_found, stops, routes, batch_size, i,
                   batch_routes, pos, batch_results, prefix_bound, attempted,
                   skipped, batches, saved_batches, saved, net_preps>>

\* line 219 when the loop body never ran: `prefix` is read before any
\* assignment, the UnboundLocalError leaves process_routes and the script
MergeFinalUnbound ==
    /\ variant = "batch"
    /\ pc = "MergingFinal"
    /\ ~prefix_bound
    /\ pc' = "Crashed"
    /\ printed' = printed \cup {Line("Merging all results...", {})}
    /\ UNCHANGED <<geoVars, partial, variant, all_results, stops_found, network_found, stops, routes, batch_size, i,
                   batch_routes, pos, batch_results, prefix_bound, intermediate,
                   final, faults, attempted, skipped, batches, saved_batches,
                   saved, net_preps>>

----------------------------------------------------------------------------
(* The script and process_routes of standalone_walkshed_generator.py *)

\* the order in which the dict literals list the three output types
TypeOrder == <<"walksheds", "dissolved", "service_lines">>

\* create_walkshed's return value: the dict of the three layers, or None
\* when one of its five steps raised
CreateWalkshed(route, raises) ==
    IF raises THEN [is_none |-> TRUE, dict |-> ResultsAfter(0, 0)]
    ELSE [is_none |-> FALSE, dict |-> [t \in Types |-> Layer(route, t)]]

\* lines 239-252: what one route leaves in all_results
AllResultsAfterRoute(ar, netNone, cw) ==
    IF ~netNone /\ Truthy(cw) THEN Append(ar, cw.dict) ELSE ar

\* lines 241, 247, 249: what the loop body prints for the route
StandaloneRouteLines(route, netNone, cw) ==
    IF netNone THEN {Line("Failed to prepare network for route", {route})}
    ELSE IF Truthy(cw) THEN {Line("Route processed successfully", {route})}
    ELSE {Line("Failed to process route", {route})}

\* [result[t] for result in all_results]
Column(ar, t) == [n \in 1..Len(ar) |-> ar[n][t]]

\* lines 291-294: a layer that is not valid ends the script
StandaloneRejectInputs ==
    /\ variant = "standalone"
    /\ pc = "Idle"
    /\ ~(stops_found /\ network_found)
    /\ pc' = "InputError"
    /\ printed' = printed \cup {Line("Error loading layers!", {})}
    /\ UNCHANGED <<geoVars, partial, variant, all_results, stops_found, network_found, stops, routes,
                   batch_size, i, batch_routes, pos, batch_results, prefix_bound,
                   intermediate, final, faults, attempted, skipped, batches,
                   saved_batches, saved, net_preps>>

\* lines 296-299 and 207-222: the call of process_routes up to the loop;
\* prepare_network returns None when one of its three steps raised
StandaloneStart ==
    /\ variant = "standalone"
    /\ pc = "Idle"
    /\ stops_found /\ network_found
    /\ routes' = Sorted(stops)
    /\ \E prepNone \in BOOLEAN :
         IF prepNone
         THEN /\ pc' = "Done"
              /\ printed' = printed \cup
                   {Line("Error in prepare_network", {}),
                    Line("Failed to prepare network. Exiting...", {}),
                    Line("Processing complete!", {})}
              /\ UNCHANGED net_preps
         ELSE /\ pc' = IF Len(Sorted(stops)) > 0 THEN "ProcessingRoutes"
                       ELSE "MergingFinal"
              /\ printed' = printed \cup {Line("Network prep complete", {})}
              /\ net_preps' = net_preps + 1
    /\ all_results' = <<>>
    /\ pos' = 0
    /\ UNCHANGED <<geoVars, partial, variant, stops_found, network_found, stops, batch_size, i,
                   batch_routes, batch_results, prefix_bound, intermediate, final,
                   faults, attempted, skipped, batches, saved_batches, saved>>

\* lines 225-252: one route
StandaloneRoute ==
    /\ variant = "standalone"
    /\ pc = "ProcessingRoutes"
    /\ pos < Len(routes)
    /\ \E netNone \in BOOLEAN, raises \in BOOLEAN :
         LET route == routes[pos + 1]
             cw == CreateWalkshed(route, raises)
         IN  /\ all_results' = AllResultsAfterRoute(all_results, netNone, cw)
             /\ printed' = printed \cup {Line("Processing route", {route})}
                  \cup (IF netNone THEN {Line("Error in prepare_route_network", {})}
                        ELSE IF raises THEN {Line("Error in create_walkshed", {})}
                        ELSE {})
                  \cup StandaloneRouteLines(route, netNone, cw)
             /\ attempted' = Append(attempted, route)
             /\ skipped' = IF netNone \/ raises THEN skipped \cup {route} ELSE skipped
    /\ pos' = pos + 1
    /\ pc' = IF pos + 1 < Len(routes) THEN "ProcessingRoutes" ELSE "MergingFinal"
    /\ UNCHANGED <<geoVars, partial, variant, stops_found, network_found, stops, routes, batch_size,
                   i, batch_routes, batch_results, prefix_bound, intermediate,
                   final, faults, batches, saved_batches, saved, net_preps>>

\* lines 254-280 and 301-303: the merge per type, not guarded by any handler:
\* the merge of type TypeOrder[failAt] raises (0: none does) and ends the script
StandaloneMerge ==
    /\ variant = "standalone"
    /\ pc = "MergingFinal"
    /\ \E failAt \in 0..Len(TypeOrder) :
         LET done == IF all_results = <<>> THEN {}
                     ELSE IF failAt = 0 THEN Types
                     ELSE {TypeOrder[n] : n \in 1..(failAt - 1)}
         IN  /\ failAt # 0 => all_results # <<>> /\ faults < MaxFaults
             /\ faults' = IF failAt # 0 THEN faults + 1 ELSE faults
             /\ final' = final \cup
                  {[type |-> t, features |-> MergeVectorLayers(Column(all_results, t))] :
                      t \in done}
             /\ pc' = IF failAt # 0 THEN "Crashed" ELSE "Done"
             /\ printed' = printed \cup
                  (IF failAt # 0 THEN {} ELSE {Line("Processing complete!", {})})
    /\ UNCHANGED <<geoVars, partial, variant, all_results, stops_found, network_found, stops, routes,
                   batch_size, i, batch_routes, pos, batch_results, prefix_bound,
                   intermediate, attempted, skipped, batches, saved_batches,
                   saved, net_preps>>

Next ==
    \/ StandaloneRejectInputs
    \/ StandaloneStart
    \/ StandaloneRoute
    \/ StandaloneMerge
    \/ RejectInputs
    \/ StartRun
    \/ ProcessRoute
    \/ SaveBatch
    \/ MergeFinal
    \/ MergeFinalUnbound

Spec == Init /\ [][Next]_allVars

----------------------------------------------------------------------------
(* create_walksheds, steps 1-4: buffer, clip, split, service area.         *)
(*                                                                         *)
(* The network lies along one axis, coordinates in metres.  A line is the  *)
(* interval [lo, hi]; lines are joined where their ends have the same      *)
(* coordinate, so two lines that overlap are two parallel ways.  The four  *)
(* algorithms are the host's (native:buffer, native:clip,                  *)
(* native:splitlinesbylength, native:serviceareafromlayer); the search of  *)
(* the last one follows section 4.3 of the design.                         *)

SPLIT_LENGTH == 100

MaxCoord == 4

MaxBudget == 3

MaxLines == 2

MaxStops == 2

Abs(x) == IF x < 0 THEN -x ELSE x

Segment(a, b) == [lo |-> a, hi |-> b]

\* inputs are laid out on a grid of half the split length
Grid == SPLIT_LENGTH \div 2

Coords == {k * Grid : k \in 0..MaxCoord}

NetworkLines ==
    {Segment(q[1], q[2]) : q \in {c \in Coords \X Coords : c[1] < c[2]}}

Networks == {n \in SUBSET NetworkLines : Cardinality(n) <= MaxLines}

StopSets == {s \in SUBSET Coords : s # {} /\ Cardinality(s) <= MaxStops}

Budgets == {k * Grid : k \in 1..MaxBudget}

\* 'DISTANCE': distance_meters * 3.3
BufferDistance(distance_meters) == (distance_meters * 33) \div 10

\* native:buffer with DISSOLVE False: one buffer for each stop
Buffer(stops_layer, distance) ==
    {Segment(s - distance, s + distance) : s \in stops_layer}

\* the ends of the line and the ends of the overlay's parts inside it
CutPoints(line, overlay) ==
    {line.lo, line.hi} \cup
    {p \in UNION {{o.lo, o.hi} : o \in overlay} : line.lo < p /\ p < line.hi}

NextPoint(p, points) == SetMin({q \in points : q > p})

\* the stretch from x to y lies in the union of the overlay
Covered(x, y, points, overlay) ==
    \A p \in points :
        (x <= p /\ p < y) =>
            \E o \in overlay : o.lo <= p /\ NextPoint(p, points) <= o.hi

\* the parts of one line inside the overlay, each as long as it can be
ClipLine(line, overlay) ==
    LET points == CutPoints(line, overlay)
        inside(x, y) == x < y /\ Covered(x, y, points, overlay)
        part(q) == /\ inside(q[1], q[2])
                   /\ \A z \in points :
                        /\ z < q[1] => ~inside(z, q[2])
                        /\ z > q[2] => ~inside(q[1], z)
    IN  {Segment(q[1], q[2]) : q \in {c \in points \X points : part(c)}}

\* native:clip of a line layer
ClipLines(input, overlay) == UNION {ClipLine(l, overlay) : l \in input}

\* a line cut into pieces of `length` from its start; the last may be shorter
SplitLine(line, length) ==
    {Segment(line.lo + k * length, Min(line.lo + (k + 1) * length, line.hi)) :
        k \in 0..((line.hi - line.lo - 1) \div length)}

\* native:splitlinesbylength
SplitLinesByLength(input, length) ==
    UNION {SplitLine(l, length) : l \in input}

\* a start point is tied to the nearest point of a nearest line
DistanceTo(s, e) ==
    IF s < e.lo THEN e.lo - s ELSE IF s > e.hi THEN s - e.hi ELSE 0

Snap(s, e) == IF s < e.lo THEN e.lo ELSE IF s > e.hi THEN e.hi ELSE s

Nearest(s, pieces) ==
    {e \in pieces : \A f \in pieces : DistanceTo(s, e) <= DistanceTo(s, f)}

\* which line each start point is tied to: among equally near lines the
\* order of the features decides
Ties(stopSet, pieces) ==
    {t \in [stopSet -> pieces] : \A s \in stopSet : t[s] \in Nearest(s, pieces)}

\* the graph's edges: every line, cut at the points tied to it
TiedGraph(pieces, stopSet, tie) ==
    UNION {LET pts == {e.lo, e.hi} \cup
                      {Snap(s, e) : s \in {x \in stopSet : tie[x] = e}}
           IN  {Segment(p, NextPoint(p, pts)) : p \in pts \ {e.hi}} :
           e \in pieces}

Seeds(stopSet, tie) == {Snap(s, tie[s]) : s \in stopSet}

Cost(e) == e.hi - e.lo

Other(e, n) == IF e.lo = n THEN e.hi ELSE e.lo

Touching(edges, n) == {e \in edges : e.lo = n \/ e.hi = n}

\* multi-source Dijkstra: the frontier starts with every seed at cost 0,
\* the cheapest entry is settled, its edges are relaxed, and nothing is
\* expanded beyond the budget
RECURSIVE Dijkstra(_, _, _, _)
Dijkstra(edges, settled, frontier, budget) ==
    IF frontier = {}
    THEN settled
    ELSE LET best == CHOOSE f \in frontier : \A g \in frontier : f.cost <= g.cost
             done == settled \cup {best}
             doneNodes == {r.node : r \in done}
             relaxed == {[node |-> Other(e, best.node),
                          cost |-> best.cost + Cost(e)] :
                         e \in Touching(edges, best.node)}
             open == {r \in (frontier \ {best}) \cup relaxed :
                        r.node \notin doneNodes /\ r.cost <= budget}
         IN  Dijkstra(edges, done, open, budget)

\* the result of the search: the reached nodes with their costs and the
\* points where an edge with one end reached is cut off, and the lines:
\* edges with both ends reached in full, the others up to the cut-off
ServiceAreaFromLayer(edges, seeds, travel_cost) ==
    LET reached == Dijkstra(edges, {},
                            {[node |-> s, cost |-> 0] : s \in seeds},
                            travel_cost)
        nodes == {r.node : r \in reached}
        leaving(r) == {e \in Touching(edges, r.node) : Other(e, r.node) \notin nodes}
        cutAt(r, e) == IF Other(e, r.node) > r.node
                       THEN r.node + (travel_cost - r.cost)
                       ELSE r.node - (travel_cost - r.cost)
        cuts == UNION {{[node |-> cutAt(r, e), cost |-> travel_cost,
                         from |-> r.node] : e \in leaving(r)} : r \in reached}
    IN  [nodes |-> {[node |-> r.node, cost |-> r.cost, from |-> r.node] :
                      r \in reached} \cup cuts,
         lines |-> {e \in edges : e.lo \in nodes /\ e.hi \in nodes} \cup
                   {Segment(Min(c.node, c.from), Min(c.node, c.from) + Abs(c.node - c.from)) :
                      c \in {x \in cuts : x.node # x.from}}]

\* 'TRAVEL_COST': distance_meters
TravelCostAsBuffered(distance_meters) == BufferDistance(distance_meters)

TravelCost(distance_meters) == distance_meters

\* the orchestrator's variables while one call of create_walksheds is
\* followed on its own
InCreateWalksheds ==
    /\ variant = "batch"
    /\ pc = "create_walksheds"
    /\ stops_found = TRUE
    /\ network_found = TRUE
    /\ stops = {}
    /\ batch_size = ROUTES_PER_BATCH
    /\ routes = <<>>
    /\ i = 0
    /\ batch_routes = <<>>
    /\ pos = 0
    /\ batch_results = EmptyResults
    /\ all_results = <<>>
    /\ prefix_bound = FALSE
    /\ intermediate = {}
    /\ final = {}
    /\ printed = {}
    /\ faults = 0
    /\ attempted = <<>>
    /\ skipped = {}
    /\ batches = <<>>
    /\ saved_batches = {}
    /\ saved = {}
    /\ net_preps = 0
    /\ partial = FALSE

InitService ==
    /\ InCreateWalksheds
    /\ HullIdle
    /\ MergeIdle
    /\ sv_pc = "buffer"
    /\ sv_network \in Networks
    /\ sv_stops \in StopSets
    /\ sv_distance \in Budgets
    /\ sv_buffer = {}
    /\ sv_clip = {}
    /\ sv_split = {}
    /\ sv_graph = {}
    /\ sv_seeds = {}
    /\ sv_area = NoArea

\* lines 36-47
BufferStops ==
    /\ sv_pc = "buffer"
    /\ sv_buffer' = Buffer(sv_stops, BufferDistance(sv_distance))
    /\ sv_pc' = "clip"
    /\ UNCHANGED <<vars, hullVars, mergeVars, sv_network, sv_stops, sv_distance, sv_clip,
                   sv_split, sv_graph, sv_seeds, sv_area>>

\* lines 49-55
ClipNetwork ==
    /\ sv_pc = "clip"
    /\ sv_clip' = ClipLines(sv_network, sv_buffer)
    /\ sv_pc' = "split"
    /\ UNCHANGED <<vars, hullVars, mergeVars, sv_network, sv_stops, sv_distance, sv_buffer,
                   sv_split, sv_graph, sv_seeds, sv_area>>

\* lines 57-63
SplitLines ==
    /\ sv_pc = "split"
    /\ sv_split' = SplitLinesByLength(sv_clip, SPLIT_LENGTH)
    /\ sv_pc' = "service"
    /\ UNCHANGED <<vars, hullVars, mergeVars, sv_network, sv_stops, sv_distance, sv_buffer,
                   sv_clip, sv_graph, sv_seeds, sv_area>>

\* lines 65-84
ServiceArea ==
    /\ sv_pc = "service"
    /\ IF sv_split = {}
       THEN /\ sv_graph' = {}
            /\ sv_seeds' = {}
            /\ sv_area' = NoArea
       ELSE \E tie \in Ties(sv_stops, sv_split) :
              /\ sv_graph' = TiedGraph(sv_split, sv_stops, tie)
              /\ sv_seeds' = Seeds(sv_stops, tie)
              /\ sv_area' = ServiceAreaFromLayer(
                                TiedGraph(sv_split, sv_stops, tie),
                                Seeds(sv_stops, tie),
                                TravelCost(sv_distance))
    /\ sv_pc' = "served"
    /\ UNCHANGED <<vars, hullVars, mergeVars, sv_network, sv_stops, sv_distance, sv_buffer,
                   sv_clip, sv_split>>

\* lines 122-124: a step raises and results becomes None
ServiceStepRaises ==
    /\ sv_pc \in {"buffer", "clip", "split", "service"}
    /\ sv_pc' = "failed"
    /\ UNCHANGED <<vars, hullVars, mergeVars, sv_network, sv_stops, sv_distance, sv_buffer,
                   sv_clip, sv_split, sv_graph, sv_seeds, sv_area>>

NextService ==
    \/ BufferStops
    \/ ClipNetwork
    \/ SplitLines
    \/ ServiceArea
    \/ ServiceStepRaises

SpecService == InitService /\ [][NextService]_allVars

----------------------------------------------------------------------------
(* create_walksheds, steps 5-7: convex hull, concave hull, clip.           *)
(*                                                                         *)
(* The service area lies on a lattice.  A line feature is given by its     *)
(* vertices, a polygon by the lattice points it covers, and the area of a  *)
(* polygon is the number of those points.  The algorithms are the host's   *)
(* (native:convexhull, native:concavehull, native:clip); of the concave    *)
(* hull the model keeps what section 4.4 of the design says of it: a       *)
(* tighter fit of the same points, possibly in parts, possibly empty.      *)

MaxX == 1

MaxVertices == 3

Lattice == (0..MaxX) \X (0..1)

\* the subsets of S with at most k elements
RECURSIVE SetsUpTo(_, _)
SetsUpTo(S, k) ==
    IF k = 0
    THEN {{}}
    ELSE LET smaller == SetsUpTo(S, k - 1)
         IN  smaller \cup {t \cup {x} : t \in smaller, x \in S}

\* the vertices of one service-area line feature
Shapes == SetsUpTo(Lattice, MaxVertices) \ {{}}

\* a line layer: one feature for each start point, of which the route has
\* one or two
LineLayers == {{f, g} : f \in Shapes, g \in Shapes}

Cross(a, b, p) ==
    (b[1] - a[1]) * (p[2] - a[2]) - (b[2] - a[2]) * (p[1] - a[1])

InBox(p, S) ==
    /\ \E s \in S : s[1] <= p[1]
    /\ \E s \in S : p[1] <= s[1]
    /\ \E s \in S : s[2] <= p[2]
    /\ \E s \in S : p[2] <= s[2]

\* p lies in the closed triangle a b c, which may be a segment or a point
InTriangle(p, a, b, c) ==
    LET d1 == Cross(a, b, p)
        d2 == Cross(b, c, p)
        d3 == Cross(c, a, p)
    IN  /\ \/ d1 >= 0 /\ d2 >= 0 /\ d3 >= 0
           \/ d1 <= 0 /\ d2 <= 0 /\ d3 <= 0
        /\ InBox(p, {a, b, c})

\* the convex hull of the points S: the union of their triangles
ConvexHull(S) ==
    {p \in Lattice : \E a \in S, b \in S, c \in S : InTriangle(p, a, b, c)}

\* native:convexhull: the hull of each feature of the input
ConvexHullLayer(input) ==
    {[src |-> f, region |-> ConvexHull(f)] : f \in input}

\* native:concavehull: one polygon for all the points of the input; what it
\* covers is some part of their convex hull
ConcaveHulls(points) == SUBSET ConvexHull(points)

\* native:clip of a polygon layer: each feature cut to the overlay, the
\* features left with nothing dropped
ClipPolygons(input, overlay) ==
    {[src |-> f.src, region |-> f.region \cap overlay] :
        f \in {g \in input : g.region \cap overlay # {}}}

\* step 7 with the overlay kept in place of the clipped input
WalkshedsUnclipped(convex, concave) ==
    {[src |-> f.src, region |-> UNION concave] : f \in convex}

\* step 7: 'INPUT': convex_result['OUTPUT'], 'OVERLAY': concave_result['OUTPUT']
WalkshedsResult(convex, concave) == ClipPolygons(convex, UNION concave)

InitHull ==
    /\ InCreateWalksheds
    /\ ServiceIdle
    /\ MergeIdle
    /\ h_pc = "convex"
    /\ h_lines \in LineLayers
    /\ h_points = UNION h_lines
    /\ h_convex = {}
    /\ h_concave = {}
    /\ h_walksheds = {}

\* lines 86-91
ConvexHullStep ==
    /\ h_pc = "convex"
    /\ h_convex' = ConvexHullLayer(h_lines)
    /\ h_pc' = "concave"
    /\ UNCHANGED <<vars, serviceVars, mergeVars, h_lines, h_points, h_concave, h_walksheds>>

\* lines 93-101
ConcaveHullStep ==
    /\ h_pc = "concave"
    /\ \E region \in ConcaveHulls(h_points) : h_concave' = {region}
    /\ h_pc' = "clip"
    /\ UNCHANGED <<vars, serviceVars, mergeVars, h_lines, h_points, h_convex, h_walksheds>>

\* lines 103-110
ClipHulls ==
    /\ h_pc = "clip"
    /\ h_walksheds' = WalkshedsResult(h_convex, h_concave)
    /\ h_pc' = "done"
    /\ UNCHANGED <<vars, serviceVars, mergeVars, h_lines, h_points, h_convex, h_concave>>

\* lines 122-124: a step raises and results becomes None
HullStepRaises ==
    /\ h_pc \in {"convex", "concave", "clip"}
    /\ h_pc' = "failed"
    /\ UNCHANGED <<vars, serviceVars, mergeVars, h_lines, h_points, h_convex, h_concave,
                   h_walksheds>>

NextHull ==
    \/ ConvexHullStep
    \/ ConcaveHullStep
    \/ ClipHulls
    \/ HullStepRaises

SpecHull == InitHull /\ [][NextHull]_allVars

----------------------------------------------------------------------------
(* native:mergevectorlayers on its own: save_batch_results and the final   *)
(* merges hand it a list of layers and it writes one layer holding the     *)
(* features of all of them.  A layer is the bag of its features.           *)

MaxMerged == 2

RECURSIVE MergeLayers(_)
\* 'LAYERS': output_list: every feature of every layer of the list
MergeLayers(layers) ==
    IF layers = <<>> THEN EmptyBag
    ELSE Head(layers) (+) MergeLayers(Tail(layers))

\* a layer of dissolved polygons, one for each of some routes
PolygonLayers ==
    {SetToBag({Layer(r, "walksheds_dissolved") : r \in rs}) :
        rs \in (SUBSET RouteKeys) \ {{}}}

\* a non-empty list of such layers
LayerLists == UNION {[1..n -> PolygonLayers] : n \in 1..MaxMerged}

InitMerge ==
    /\ InCreateWalksheds
    /\ ServiceIdle
    /\ HullIdle
    /\ m_pc = "merge"
    /\ m_layers \in LayerLists
    /\ m_merged = EmptyBag
    /\ m_again = EmptyBag

\* lines 134-140: the list is merged into one layer
Merge ==
    /\ m_pc = "merge"
    /\ m_merged' = MergeLayers(m_layers)
    /\ m_pc' = "merged"
    /\ UNCHANGED <<vars, serviceVars, hullVars, m_layers, m_again>>

\* lines 134-140 with the merged layer listed twice
MergeAgain ==
    /\ m_pc = "merged"
    /\ m_again' = MergeLayers(<<m_merged, m_merged>>)
    /\ m_pc' = "remerged"
    /\ UNCHANGED <<vars, serviceVars, hullVars, m_layers, m_merged>>

\* lines 141-143: the merge raises and nothing is written
MergeRaises ==
    /\ m_pc \in {"merge", "merged"}
    /\ m_pc' = "failed"
    /\ UNCHANGED <<vars, serviceVars, hullVars, m_layers, m_merged, m_again>>

NextMerge ==
    \/ Merge
    \/ MergeAgain
    \/ MergeRaises

SpecMerge == InitMerge /\ [][NextMerge]_allVars

----------------------------------------------------------------------------
(* Views of the state used by the properties *)

Range(s) == {s[n] : n \in 1..Len(s)}

IsPrefix(s, t) == Len(s) <= Len(t) /\ s = SubSeq(t, 1, Len(s))

RECURSIVE Flatten(_)
Flatten(ss) == IF ss = <<>> THEN <<>> ELSE Head(ss) \o Flatten(Tail(ss))

\* every layer held in memory, whichever script runs
HeldLayers ==
    UNION {Range(batch_results[t]) : t \in Types} \cup
    UNION {{all_results[n][t] : t \in Types} : n \in 1..Len(all_results)}

\* the features of the final artifact of type t (none when it does not exist)
FinalFeatures(t) == BagSum({f \in final : f.type = t})

\* the routes that have a polygon in the final artifact of type t
FinalRoutes(t) == {x.rte : x \in BagToSet(FinalFeatures(t))}

LoopLeft == pc \in {"MergingFinal", "Done", "Crashed"}

----------------------------------------------------------------------------
(* C1 *)

\* C1: a route whose create_walksheds returns no result or raises is skipped.
\* No layer of a skipped route is in any in-memory result list; the routes
\* taken so far are always exactly the first routes of the sorted list, one
\* more after every route whatever its outcome; and once the loops are left
\* every route has been taken (the standalone script leaves early only when
\* prepare_network itself fails, before any route).
C1_FailedRouteSkippedOthersProcessed ==
    /\ \A l \in HeldLayers : l.rte \notin skipped
    /\ skipped \subseteq Range(attempted)
    /\ IsPrefix(attempted, routes)
    /\ (variant = "batch" /\ pc \in {"ProcessingBatch", "SavingBatch"})
          => Len(attempted) = i + pos
    /\ (variant = "batch" /\ pc = "SavingBatch")
          => Len(attempted) = Min(i + batch_size, Len(routes))
    /\ (variant = "standalone" /\ pc = "ProcessingRoutes") => Len(attempted) = pos
    /\ (LoopLeft /\ ~(variant = "standalone" /\ net_preps = 0))
          => attempted = routes

\* C1 witness: a finished batched run in which the first route of the first
\* batch was skipped, and the route after it and the first route of the
\* second batch both reached the final dissolved artifact
C1_Witness ==
    /\ variant = "batch"
    /\ pc = "Done"
    /\ Len(batches) >= 2
    /\ Len(batches[1]) >= 2
    /\ batches[1][1] \in skipped
    /\ batches[1][2] \in FinalRoutes("dissolved")
    /\ batches[2][1] \in FinalRoutes("dissolved")

----------------------------------------------------------------------------
(* C2 *)

\* C2: the batches formed by the outer loop are consecutive slices of the
\* sorted list of distinct route keys.  While the loop runs, the batches
\* formed so far, put end to end, are a prefix of routes and all of them are
\* full except possibly the current one; once the loop is left there are
\* ceil(n/B) of them, all but the last of B routes, the last of 1..B, and put
\* end to end they are the whole list, which is strictly increasing and holds
\* exactly the route keys of the stops.
C2_BatchesPartitionSortedRoutes ==
    (variant = "batch" /\ pc # "Idle" /\ pc # "InputError") =>
        LET n == Len(routes)
            B == batch_size
            m == Len(batches)
        IN  /\ Range(routes) = stops
            /\ \A a, b \in 1..n : a < b => routes[a] < routes[b]
            /\ IsPrefix(Flatten(batches), routes)
            /\ \A j \in 1..(m - 1) : Len(batches[j]) = B
            /\ m > 0 => Len(batches[m]) \in 1..B
            /\ LoopLeft =>
                 /\ Flatten(batches) = routes
                 /\ m * B >= n
                 /\ (m - 1) * B < n

\* C2 witness: a finished run of three batches whose last batch is not full
C2_Witness ==
    /\ variant = "batch"
    /\ pc = "Done"
    /\ Len(batches) = 3
    /\ Len(batches[1]) = batch_size
    /\ Len(batches[2]) = batch_size
    /\ Len(batches[3]) < batch_size

----------------------------------------------------------------------------
(* C3 *)

\* C3 as stated: when a batched run is Done, the final dissolved artifact holds
\* exactly one polygon for each route that was not skipped, so the number of
\* distinct route polygons is the number of routes minus the skipped ones.
C3_Original ==
    (variant = "batch" /\ pc = "Done") =>
        /\ FinalRoutes("dissolved") = Range(routes) \ skipped
        /\ Cardinality(FinalRoutes("dissolved")) = Len(routes) - Cardinality(skipped)
        /\ \A x \in BagToSet(FinalFeatures("dissolved")) :
             CopiesIn(x, FinalFeatures("dissolved")) = 1

----------------------------------------------------------------------------
(* C4 *)

\* C4 as stated: when a batched run is Done, every feature that was saved to
\* an intermediate artifact is in the final artifact of its type, and no
\* intermediate artifact remains.
C4_Original ==
    (variant = "batch" /\ pc = "Done") =>
        /\ \A x \in saved : BagIn(x.feature, FinalFeatures(x.type))
        /\ intermediate = {}

----------------------------------------------------------------------------
(* C5 *)

----------------------------------------------------------------------------
(* C6 *)

\* the number of the batch the outer loop is at
CurrentBatch == BatchNo(i, batch_size)

\* the batch at index i is the last one
LastBatch == i + batch_size >= Len(routes)

\* the saves that are complete at each position of a batched run
C6_SavesInOrder ==
    /\ pc = "Idle" => saved_batches = {}
    /\ pc = "ProcessingBatch" => saved_batches = 1..(CurrentBatch - 1)
    /\ pc = "SavingBatch" => saved_batches = 1..(CurrentBatch - 1)
    /\ pc \in {"MergingFinal", "Done"} => saved_batches = 1..Len(batches)

\* no network is prepared before the first route, and at most one per route
C6_PreparedPerRoute ==
    /\ pc = "Idle" => net_preps = 0
    /\ (pc = "ProcessingBatch" /\ i = 0 /\ pos = 0) => net_preps = 0
    /\ net_preps <= Len(attempted)

\* the steps a batched run can take
C6_Step ==
    /\ pc = "Idle" =>
         \/ pc' = "InputError"
         \/ pc' = "ProcessingBatch" /\ i' = 0 /\ pos' = 0
         \/ pc' = "MergingFinal" /\ routes' = <<>>
    /\ pc = "ProcessingBatch" =>
         /\ i' = i
         /\ attempted' = Append(attempted, batch_routes[pos + 1])
         /\ saved_batches' = saved_batches
         /\ \/ pc' = "ProcessingBatch"
            \/ pc' = "SavingBatch" /\ pos' = Len(batch_routes)
    /\ pc = "SavingBatch" =>
         /\ saved_batches' = saved_batches \cup {CurrentBatch}
         /\ attempted' = attempted
         /\ \/ pc' = "ProcessingBatch" /\ ~LastBatch /\ pos' = 0
                 /\ BatchNo(i', batch_size) = CurrentBatch + 1
            \/ pc' = "MergingFinal" /\ LastBatch
    /\ pc = "MergingFinal" =>
         /\ pc' \in {"Done", "Crashed"}
         /\ pc' = "Crashed" => routes = <<>>
         /\ attempted' = attempted /\ saved_batches' = saved_batches
    /\ pc \in {"Done", "Crashed", "InputError"} => FALSE
    /\ net_preps' # net_preps =>
         /\ pc = "ProcessingBatch"
         /\ net_preps' = net_preps + 1

----------------------------------------------------------------------------
(* C7 *)

\* C7 as stated: with both layers found, whatever the number of routes and
\* the failures of routes, the batched script never ends with an unhandled
\* error.
C7_Original ==
    (variant = "batch" /\ stops_found /\ network_found) => pc # "Crashed"

----------------------------------------------------------------------------
(* C8 *)

FailureMsgs == {"Error processing route", "Failed to prepare network for route",
                "Failed to process route"}

SuccessMsgs == {"Successfully processed route", "Route processed successfully"}

\* the routes the printed lines report as failed, and as succeeded
ReportedFailed == UNION {l.routes : l \in {x \in printed : x.msg \in FailureMsgs}}

ReportedSucceeded == UNION {l.routes : l \in {x \in printed : x.msg \in SuccessMsgs}}

\* C8 as stated, reading the printed lines as the per-run summary: when the
\* run is Done every skipped route has a line with its route key and its
\* failure, and the routes reported as succeeded and as failed add up to all
\* the routes.
C8_Original ==
    (variant = "batch" /\ pc = "Done") =>
        /\ skipped \subseteq ReportedFailed
        /\ Cardinality(ReportedSucceeded) + Cardinality(ReportedFailed) = Len(routes)

----------------------------------------------------------------------------
(* C9 *)

\* the lengths of the ways in `edges` from node n to a seed that pass no
\* node twice
RECURSIVE WayLengths(_, _, _, _)
WayLengths(edges, seeds, n, seen) ==
    IF n \in seeds
    THEN {0}
    ELSE UNION {{Cost(e) + l :
                   l \in WayLengths(edges, seeds, Other(e, n), seen \cup {n})} :
                e \in {f \in Touching(edges, n) : Other(f, n) \notin seen \cup {n}}}

Connected(edges, seeds, n) == WayLengths(edges, seeds, n, {}) # {}

\* the minimal network distance of node n from the seeds
NetworkDistance(edges, seeds, n) == SetMin(WayLengths(edges, seeds, n, {}))

\* the graph's nodes
NodesOf(edges) == UNION {{e.lo, e.hi} : e \in edges}

\* C9: every node of the service area computed with travel cost
\* distance_meters on the reduced, split network - a reached node of the
\* graph, or the point where an edge is cut off - carries its minimal
\* network distance from the seeds, and that distance is at most
\* distance_meters.
C9_NoOvershoot ==
    sv_pc = "served" =>
        \A r \in sv_area.nodes :
            /\ Connected(sv_graph, sv_seeds, r.from)
            /\ r.cost = NetworkDistance(sv_graph, sv_seeds, r.from)
                          + Abs(r.node - r.from)
            /\ r.cost <= sv_distance

\* a service area with two stops, a node reached at a positive cost, an edge
\* cut off at the budget, and a node of the graph that lies beyond it
C9_Witness ==
    /\ sv_pc = "served"
    /\ Cardinality(sv_stops) = 2
    /\ \E r \in sv_area.nodes : r.from = r.node /\ 0 < r.cost
    /\ \E r \in sv_area.nodes : r.from # r.node /\ r.cost = sv_distance
    /\ \E n \in NodesOf(sv_graph) :
         /\ Connected(sv_graph, sv_seeds, n)
         /\ NetworkDistance(sv_graph, sv_seeds, n) > sv_distance

----------------------------------------------------------------------------
(* C10 *)

\* a straight line has p strictly on one side and all of S on the other
Separated(p, S) ==
    \E a \in -MaxX..MaxX, b \in -MaxX..MaxX :
        \A s \in S : a * p[1] + b * p[2] > a * s[1] + b * s[2]

\* the points no line separates from S
Envelope(S) == {p \in Lattice : ~Separated(p, S)}

\* C10: every walkshed polygon (the convex hull of a service area's lines
\* clipped by the concave hull) covers no point outside the convex hull of
\* those lines, so its area is at most the area of that convex hull.
C10_WalkshedWithinConvexHull ==
    h_pc = "done" =>
        \A w \in h_walksheds :
            /\ \A p \in w.region : ~Separated(p, w.src)
            /\ Cardinality(w.region) <= Cardinality(Envelope(w.src))

\* two service areas; the concave hull reaches outside the convex hull of
\* one of them, and the clip leaves that one a polygon smaller than its hull
C10_Witness ==
    /\ h_pc = "done"
    /\ Cardinality(h_lines) = 2
    /\ \E w \in h_walksheds :
         /\ w.region # {}
         /\ w.region # Envelope(w.src)
         /\ \E p \in UNION h_concave : Separated(p, w.src)

----------------------------------------------------------------------------
(* C11 *)

\* C11: merging an already-merged result with itself yields the merged
\* result again: the same polygons, each as often as before (no polygon
\* duplicated).
C11_Original == m_pc = "remerged" => m_again = m_merged

----------------------------------------------------------------------------
(* C12 *)

\* the routes whose results a list holds, in the list's order
RoutesOf(layers) == [n \in 1..Len(layers) |-> layers[n].rte]

NotSkipped(route) == route \notin skipped

\* the routes of the current batch taken so far that were not skipped
KeptOfBatch == SelectSeq(SubSeq(batch_routes, 1, pos), NotSkipped)

\* C12: a route contributes to all three result types or to none.  In every
\* state the in-memory lists for walksheds, dissolved and service lines have
\* the same length and hold results of the same routes in the same order
\* (while a batch is processed or saved: the routes of the batch taken so
\* far, less the skipped ones), each list holding the output of its own
\* kind; a route whose create_walksheds has just raised after `results`
\* had been given an output is in none of them.  In the standalone script every
\* entry of all_results holds the three outputs of one route.
C12_AllTypesOrNone ==
    /\ \A n \in 1..Len(AppendOrder) :
         LET list == batch_results[AppendOrder[n].type]
         IN  /\ Len(list) = Len(batch_results["walksheds"])
             /\ RoutesOf(list) = RoutesOf(batch_results["walksheds"])
             /\ \A l \in Range(list) :
                  /\ l.key = AppendOrder[n].key
                  /\ partial => l.rte # attempted[Len(attempted)]
             /\ pc \in {"ProcessingBatch", "SavingBatch"} =>
                  RoutesOf(list) = KeptOfBatch
    /\ \A n \in 1..Len(all_results) :
         /\ DOMAIN all_results[n] = Types
         /\ \A t \in Types :
              /\ all_results[n][t].key = t
              /\ all_results[n][t].rte = all_results[n]["walksheds"].rte

\* the route just taken failed after its service-area lines had been stored
\* in `results`, an earlier route of the batch is in the three lists, and
\* the batch goes on
C12_Witness ==
    /\ variant = "batch"
    /\ pc = "ProcessingBatch"
    /\ partial
    /\ 1 < pos
    /\ Len(batch_results["dissolved"]) > 0

====
